---------------------------- MODULE Spec2Model ----------------------------
(***************************************************************************)
(* Tearing study: a mutable external store (src/src/main.tsx), the two     *)
(* accessors useMousePosition / useSyncMousePosition, the subscription     *)
(* protocol documented in src/README.md (useSubscription) and the          *)
(* App harness with its interruptible and non-interruptible toggles.       *)
(*                                                                         *)
(* The specifications share the variables:                                *)
(*   SpecStore  the store driven by an arbitrary client of its API;        *)
(*   SpecHook   one useSubscription hook (README) over the store, with a   *)
(*              caller that may change the hook's parameters and a source  *)
(*              that may invoke any handler it was ever given;             *)
(*   Spec       the application: root.render, the two buttons, the six     *)
(*              consumers and pointer events interleaved as the event loop *)
(*              allows.                                                    *)
(*   SpecLive   Spec with the work React schedules eventually done.        *)
(***************************************************************************)
EXTENDS Integers, FiniteSets, Sequences, TLC

\* ------------------------------------------------------------------ bounds
\* clientX ranges over 0..MaxX
MaxX == 1
\* effect runs (handler closures) per accessor
MaxGen == 2
\* unsubscribe handles a client of the store may hold per listener
MaxHandles == 2
\* <Coordinates /> and <SyncCoordinates /> are each mounted three times
NumCoordinates == 3

Xs == 0..MaxX
Sync == 1..NumCoordinates
Regular == 1..NumCoordinates
\* a listener is a handler closure: <<accessor, effect run>>
Listener == Sync \X (1..MaxGen)
\* listeners an arbitrary client of the store registers (SpecStore)
ClientListeners == {l \in Listener : l[1] <= 2 /\ l[2] = 1}
Handle == ClientListeners \X (1..MaxHandles)

VARIABLES
  \* --- the store (createExternalStore)
  data,            \* data = { x }
  listeners,       \* Set<Listener>
  attached,        \* window has the "mousemove" callback registered
  \* --- the store's environment
  pointer,         \* clientX of the latest pointer-move event
  fired,           \* listeners invoked by the latest run of callback
  handles,         \* unsubscribe handles issued to the client (SpecStore)
  lastCall,        \* the latest call on the store's API and what it met
                   \* (dup: a subscribe of a listener already registered,
                   \* or the unsubscribe that directly follows one)
  thrown,          \* the error raised, "none" if none
  \* --- accessor (hook) state, per synchronized consumer
  state,           \* useState: {getCurrentValue, subscribe, value}
  params,          \* the functions passed in at the latest render
  mountedHooks,    \* accessors whose component is mounted
  effectGen,       \* number of effect runs so far (0: none yet)
  made,            \* handler closures (checkForUpdates) created so far
  closedOver,      \* the parameters each closure closed over
  didUnsubscribe,  \* closures whose cleanup ran
  needsEffect,     \* accessors with a passive effect scheduled
  forced,          \* accessors with a forced re-render pending
  lastDelivery,    \* the latest handler invocation and what it met
                   \* (kept for a hook outside the mounted application)
  upToDate,        \* accessors of the mounted application whose committed
                   \* value was read no earlier than their latest
                   \* subscription, or is the value the store held then
  \* --- the application (React root, App)
  root,            \* "none" | "mounted" | "failed"
  container,       \* document.getElementById("root"): "unknown" until
                   \* looked up, then "present" or "missing"
  capture,         \* useState(false) of App
  pendingTransition, \* the button whose startTransition update is
                   \* scheduled, "none" if none
  cursor,          \* consumers rendered so far by the transition pass
  wip,             \* work-in-progress outputs of the transition pass
  committedReg,    \* committed x of each <Coordinates />
  committedSync,   \* committed x of each <SyncCoordinates />
  lastCommit,      \* the kind of update that produced the latest commit
  lastTrigger,     \* the button that triggered it, "none" if none
  readsOfPass,     \* store value met by each consumer's render in the
                   \* attempt that produced the latest commit
  abandoned        \* what the latest commit followed: "none", or a
                   \* complete attempt abandoned with synchronized reads
                   \* that were equal but out of date ("stale") or that
                   \* differed from one another ("torn")

storeVars == <<data, listeners, attached>>
envVars   == <<pointer, fired, handles, lastCall, thrown>>
hookVars  == <<state, params, mountedHooks, effectGen, made, closedOver,
               didUnsubscribe, needsEffect, forced, lastDelivery, upToDate>>
appVars   == <<root, container, capture, pendingTransition, cursor, wip,
               committedReg,
               committedSync, lastCommit, lastTrigger, readsOfPass,
               abandoned>>
vars      == <<storeVars, envVars, hookVars, appVars>>

\* ------------------------------------------------------------------ store
\* const callback = (event) => { data.x = event.clientX; }
callback_dropped(d, clientX) == d
callback(d, clientX) == [d EXCEPT !.x = clientX]

\* The listeners the body of callback invokes: it only assigns data.x.
notified(ls) == {}

\* get value() { return data; }
getValue == data

\* listeners.add(listener)
subscribe_only(ls, listener) == {listener}
subscribe(ls, listener) == ls \cup {listener}

\* the handle returned by subscribe: listeners.delete(listener)
unsubscribe_kept(ls, listener) == [listeners |-> ls, threw |-> FALSE]
unsubscribe_clear(ls, listener) == [listeners |-> {}, threw |-> FALSE]
unsubscribe(ls, listener) == [listeners |-> ls \ {listener}, threw |-> FALSE]

\* destroy(): listeners.clear(); window.removeEventListener(...)
destroy_keepAttached == [listeners |-> {}, attached |-> attached]
destroy == [listeners |-> {}, attached |-> FALSE]

\* ------------------------------------------------------- initial states
\* const store = createExternalStore()
InitStore ==
  /\ data = [x |-> 0]
  /\ listeners = {}
  /\ attached = TRUE

NoCall == [op |-> "none", listener |-> <<0, 0>>, before |-> {}, x |-> 0,
           firedBefore |-> {}, cleared |-> {}, dup |-> FALSE]

InitEnv ==
  /\ pointer = 0
  /\ fired = {}
  /\ handles = {}
  /\ lastCall = NoCall
  /\ thrown = "none"

NoFns == [getCurrentValue |-> "none", subscribe |-> "none"]
NoState == [getCurrentValue |-> "none", subscribe |-> "none", value |-> 0]
NoDelivery == [closure |-> <<0, 0>>, unsubscribed |-> FALSE, stale |-> FALSE,
               prevState |-> NoState, read |-> 0, nextState |-> NoState,
               called |-> FALSE, forces |-> FALSE]

InitHooks ==
  /\ state = [i \in Sync |-> NoState]
  /\ params = [i \in Sync |-> NoFns]
  /\ mountedHooks = {}
  /\ effectGen = [i \in Sync |-> 0]
  /\ made = {}
  /\ closedOver = [c \in Listener |-> NoFns]
  /\ didUnsubscribe = {}
  /\ needsEffect = {}
  /\ forced = {}
  /\ lastDelivery = NoDelivery
  /\ upToDate = {}

NoRead == [value |-> 0, synced |-> FALSE, met |-> 0]

InitApp ==
  /\ root = "none"
  /\ container = "unknown"
  /\ capture = FALSE
  /\ pendingTransition = "none"
  /\ cursor = 0
  /\ wip = [c \in 1..(2 * NumCoordinates) |-> NoRead]
  /\ committedReg = [i \in Regular |-> 0]
  /\ committedSync = [i \in Sync |-> 0]
  /\ lastCommit = "none"
  /\ lastTrigger = "none"
  /\ readsOfPass = [c \in 1..(2 * NumCoordinates) |-> 0]
  /\ abandoned = "none"

Init == InitStore /\ InitEnv /\ InitHooks /\ InitApp

\* ------------------------------------------------- the store and a client
\* A pointer-move event: the window delivers it to callback while the
\* handler is registered, and to nobody after removeEventListener.
PointerMove(clientX) ==
  /\ pointer' = clientX
  /\ IF attached
       THEN /\ data' = callback(data, clientX)
            /\ fired' = notified(listeners)
            /\ lastCall' = [lastCall EXCEPT !.op = "callback",
                                            !.before = listeners,
                                            !.x = data.x,
                                            !.firedBefore = fired,
                                            !.dup = FALSE]
       ELSE /\ UNCHANGED <<data, fired>>
            /\ lastCall' = [lastCall EXCEPT !.op = "dropped",
                                            !.before = listeners,
                                            !.x = data.x,
                                            !.firedBefore = fired,
                                            !.dup = FALSE]
  /\ UNCHANGED <<listeners, attached, handles, thrown, hookVars, appVars>>

\* store.subscribe(listener), keeping the handle it returns
ClientSubscribe(l) ==
  /\ \E n \in 1..MaxHandles :
       /\ <<l, n>> \notin handles
       /\ \A m \in 1..(n - 1) : <<l, m>> \in handles
       /\ handles' = handles \cup {<<l, n>>}
  /\ listeners' = subscribe(listeners, l)
  /\ lastCall' = [lastCall EXCEPT !.op = "subscribe", !.listener = l,
                                  !.before = listeners, !.x = data.x,
                                  !.firedBefore = fired,
                                  !.dup = l \in listeners]
  /\ UNCHANGED <<data, attached, pointer, fired, thrown, hookVars, appVars>>

\* invoking a handle returned by subscribe, any number of times
ClientUnsubscribe(h) ==
  /\ h \in handles
  /\ LET r == unsubscribe(listeners, h[1]) IN
       /\ listeners' = r.listeners
       /\ thrown' = IF r.threw THEN "TypeError" ELSE thrown
  /\ lastCall' = [lastCall EXCEPT !.op = "unsubscribe", !.listener = h[1],
                                  !.before = listeners, !.x = data.x,
                                  !.firedBefore = fired,
                                  !.dup = /\ lastCall.op = "subscribe"
                                          /\ lastCall.listener = h[1]
                                          /\ lastCall.dup]
  /\ UNCHANGED <<data, attached, pointer, fired, handles, hookVars, appVars>>

\* store.destroy()
ClientDestroy ==
  /\ listeners' = destroy.listeners
  /\ attached' = destroy.attached
  /\ lastCall' = [lastCall EXCEPT !.op = "destroy", !.before = listeners,
                                  !.x = data.x, !.firedBefore = fired,
                                  !.cleared = listeners, !.dup = FALSE]
  /\ UNCHANGED <<data, pointer, fired, handles, thrown, hookVars, appVars>>

NextStore ==
  \/ \E x \in Xs : PointerMove(x)
  \/ \E l \in ClientListeners : ClientSubscribe(l)
  \/ \E h \in Handle : ClientUnsubscribe(h)
  \/ ClientDestroy

SpecStore == Init /\ [][NextStore]_vars


\* --------------------------------------- useSubscription (src/README.md)
\* identities a caller may pass as getCurrentValue and as subscribe; every
\* getCurrentValue reads store.value.x and every subscribe is the store's
GetFns == {"getState", "getState2"}
SubFns == {"subscribe", "subscribe2"}
Params == [getCurrentValue : GetFns, subscribe : SubFns]
\* the component of SpecHook
HookIds == {1}

\* useState(() => ({getCurrentValue, subscribe, value: getCurrentValue()}))
useStateInit(p, cur) ==
  [getCurrentValue |-> p.getCurrentValue, subscribe |-> p.subscribe,
   value |-> cur]

\* state.getCurrentValue !== getCurrentValue || state.subscribe !== subscribe
paramsChanged(st, p) ==
  st.getCurrentValue # p.getCurrentValue \/ st.subscribe # p.subscribe

\* One render of useSubscription with state st, parameters p and cur the
\* value getCurrentValue() would return: the state React holds afterwards
\* and the value returned to the caller.
useSubscription_stored(st, p, cur) ==
  [state |-> st, valueToReturn |-> st.value]
useSubscription(st, p, cur) ==
  IF paramsChanged(st, p)
    THEN [state |-> useStateInit(p, cur), valueToReturn |-> cur]
    ELSE [state |-> st, valueToReturn |-> st.value]

\* checkForUpdates of a closure over parameters p: unsub is its
\* didUnsubscribe flag, prevState the state setState hands to the updater,
\* cur the value getCurrentValue() returns.  called: setState was reached;
\* forces: the updater returned a new state object, so React re-renders.
checkForUpdates_noUnsubGuard(unsub, p, prevState, cur) ==
  IF paramsChanged(prevState, p) \/ prevState.value = cur
    THEN [next |-> prevState, called |-> TRUE, forces |-> FALSE]
    ELSE [next |-> [prevState EXCEPT !.value = cur], called |-> TRUE,
          forces |-> TRUE]
checkForUpdates_noStaleCheck(unsub, p, prevState, cur) ==
  IF unsub
    THEN [next |-> prevState, called |-> FALSE, forces |-> FALSE]
    ELSE IF prevState.value = cur
      THEN [next |-> prevState, called |-> TRUE, forces |-> FALSE]
      ELSE [next |-> [prevState EXCEPT !.value = cur], called |-> TRUE,
            forces |-> TRUE]
checkForUpdates_noBailout(unsub, p, prevState, cur) ==
  IF unsub
    THEN [next |-> prevState, called |-> FALSE, forces |-> FALSE]
    ELSE IF paramsChanged(prevState, p)
      THEN [next |-> prevState, called |-> TRUE, forces |-> FALSE]
      ELSE [next |-> [prevState EXCEPT !.value = cur], called |-> TRUE,
            forces |-> TRUE]
checkForUpdates(unsub, p, prevState, cur) ==
  IF unsub
    THEN [next |-> prevState, called |-> FALSE, forces |-> FALSE]
    ELSE IF paramsChanged(prevState, p)
      THEN [next |-> prevState, called |-> TRUE, forces |-> FALSE]
      ELSE IF prevState.value = cur
        THEN [next |-> prevState, called |-> TRUE, forces |-> FALSE]
        ELSE [next |-> [prevState EXCEPT !.value = cur], called |-> TRUE,
              forces |-> TRUE]

\* the handler closure the accessor's latest effect run created
current(i) == <<i, effectGen[i]>>
hasLive(i) == effectGen[i] > 0 /\ current(i) \notin didUnsubscribe

\* what invoking closure c, closed over p, does when getCurrentValue()
\* returns cur, and the record of it
invoke(c, p, cur) ==
  checkForUpdates(c \in didUnsubscribe, p, state[c[1]], cur)
delivery(c, p, cur) ==
  [closure |-> c, unsubscribed |-> c \in didUnsubscribe,
   stale |-> paramsChanged(state[c[1]], p),
   prevState |-> state[c[1]], read |-> cur,
   nextState |-> invoke(c, p, cur).next, called |-> invoke(c, p, cur).called,
   forces |-> invoke(c, p, cur).forces]

\* checkForUpdates() right after subscribe(checkForUpdates), in the effect
recheck_skipped(c, p, cur) ==
  [next |-> state[c[1]], called |-> FALSE, forces |-> FALSE]
recheck(c, p, cur) == invoke(c, p, cur)

\* the closure an effect run of accessor i creates next
fresh(i) == <<i, effectGen[i] + 1>>
least(S) == CHOOSE i \in S : \A j \in S : i <= j

\* A mousemove event while accessors are mounted: callback runs, and every
\* listener it invokes runs its checkForUpdates.
MouseMove(clientX) ==
  /\ attached
  /\ pointer' = clientX
  /\ data' = callback(data, clientX)
  /\ LET f == notified(listeners)
         hit == {i \in Sync : \E c \in f : c[1] = i}
         of(i) == CHOOSE c \in f : c[1] = i
     IN
       /\ fired' = f
       /\ state' = [i \in Sync |->
            IF i \in hit THEN invoke(of(i), closedOver[of(i)], clientX).next
                         ELSE state[i]]
       /\ forced' = forced \cup
            {i \in hit : invoke(of(i), closedOver[of(i)], clientX).forces}
       /\ lastDelivery' =
            IF hit = {} THEN lastDelivery
            ELSE delivery(of(least(hit)), closedOver[of(least(hit))], clientX)
  /\ UNCHANGED <<listeners, attached, handles, lastCall, thrown, params,
                 mountedHooks, upToDate,
                 effectGen, made, closedOver, didUnsubscribe, needsEffect,
                 appVars>>

\* useEffect(..., [getCurrentValue, subscribe]) of the accessors in S, run
\* in one go: the cleanups of the previous runs (didUnsubscribe = true;
\* unsubscribe()), then for each accessor subscribe(checkForUpdates)
\* followed by checkForUpdates().
runEffects(S) ==
  /\ \A i \in S : effectGen[i] < MaxGen
  /\ LET old == {current(i) : i \in {j \in S : hasLive(j)}}
         new == {fresh(i) : i \in S}
         kept == {l \in listeners :
                   \A c \in old : l \in unsubscribe(listeners, c).listeners}
     IN
       /\ didUnsubscribe' = didUnsubscribe \cup old
       /\ listeners' = {l \in Listener :
                         \/ l \in kept
                         \/ \E c \in new : l \in subscribe({}, c)}
       /\ thrown' = IF \E c \in old : unsubscribe(listeners, c).threw
                      THEN "TypeError" ELSE thrown
       /\ made' = made \cup new
       /\ closedOver' = [c \in Listener |->
            IF c \in new THEN params[c[1]] ELSE closedOver[c]]
       /\ effectGen' = [i \in Sync |->
            IF i \in S THEN effectGen[i] + 1 ELSE effectGen[i]]
       /\ state' = [i \in Sync |->
            IF i \in S THEN recheck(fresh(i), params[i], data.x).next
                       ELSE state[i]]
       /\ forced' = forced \cup
            {i \in S : recheck(fresh(i), params[i], data.x).forces}
       /\ lastDelivery' = IF root = "mounted" THEN lastDelivery
            ELSE delivery(fresh(least(S)), params[least(S)], data.x)
       /\ upToDate' = IF root = "mounted"
            THEN (upToDate \ S) \cup {i \in S : committedSync[i] = data.x}
            ELSE upToDate

\* React flushes every scheduled passive effect after the commit.
FlushPassiveEffects ==
  /\ needsEffect # {}
  /\ runEffects(needsEffect)
  /\ needsEffect' = {}
  /\ UNCHANGED <<data, attached, pointer, fired, handles, lastCall, params,
                 mountedHooks, appVars>>

\* The subscription source invokes a handler it was given: any closure ever
\* passed to subscribe, also one already unsubscribed or made stale.
Deliver(c) ==
  /\ c \in made
  /\ state' = [state EXCEPT ![c[1]] = invoke(c, closedOver[c], data.x).next]
  /\ forced' = IF invoke(c, closedOver[c], data.x).forces
                 THEN forced \cup {c[1]} ELSE forced
  /\ lastDelivery' = delivery(c, closedOver[c], data.x)
  /\ UNCHANGED <<storeVars, envVars, params, mountedHooks, effectGen, made,
                 closedOver, didUnsubscribe, needsEffect, upToDate, appVars>>

\* First render of a component calling useSubscription(p), committed.
HookMount(i, p) ==
  /\ i \notin mountedHooks
  /\ effectGen[i] = 0
  /\ state' = [state EXCEPT ![i] = useStateInit(p, data.x)]
  /\ params' = [params EXCEPT ![i] = p]
  /\ committedSync' = [committedSync EXCEPT ![i] = data.x]
  /\ mountedHooks' = mountedHooks \cup {i}
  /\ needsEffect' = needsEffect \cup {i}
  /\ lastCommit' = "hook"
  /\ UNCHANGED <<storeVars, envVars, effectGen, made, closedOver,
                 didUnsubscribe, forced, lastDelivery, upToDate, root, container,
                 capture,
                 pendingTransition, cursor, wip, committedReg, lastTrigger,
                 readsOfPass, abandoned>>

\* A later render with parameters p (the same or new identities),
\* committed; the effect is scheduled again when its deps changed.
HookRender(i, p) ==
  /\ i \in mountedHooks
  /\ i \notin needsEffect
  /\ p # params[i] => effectGen[i] < MaxGen
  /\ LET r == useSubscription(state[i], p, data.x) IN
       /\ state' = [state EXCEPT ![i] = r.state]
       /\ committedSync' = [committedSync EXCEPT ![i] = r.valueToReturn]
  /\ params' = [params EXCEPT ![i] = p]
  /\ needsEffect' = IF p # params[i] THEN needsEffect \cup {i} ELSE needsEffect
  /\ forced' = forced \ {i}
  /\ lastCommit' = "hook"
  /\ UNCHANGED <<storeVars, envVars, mountedHooks, effectGen, made, closedOver,
                 didUnsubscribe, lastDelivery, upToDate, root, container,
                 capture,
                 pendingTransition, cursor, wip, committedReg, lastTrigger,
                 readsOfPass, abandoned>>

\* The component is removed: the effect's cleanup runs.
HookUnmount(i) ==
  /\ i \in mountedHooks
  /\ mountedHooks' = mountedHooks \ {i}
  /\ needsEffect' = needsEffect \ {i}
  /\ forced' = forced \ {i}
  /\ IF hasLive(i)
       THEN /\ didUnsubscribe' = didUnsubscribe \cup {current(i)}
            /\ listeners' = unsubscribe(listeners, current(i)).listeners
            /\ thrown' = IF unsubscribe(listeners, current(i)).threw
                           THEN "TypeError" ELSE thrown
       ELSE UNCHANGED <<didUnsubscribe, listeners, thrown>>
  /\ UNCHANGED <<data, attached, pointer, fired, handles, lastCall, state,
                 params, effectGen, made, closedOver, lastDelivery, upToDate,
                 appVars>>

\* The cleanup of an effect run invoked once more.
RepeatCleanup(c) ==
  /\ c \in didUnsubscribe
  /\ listeners' = unsubscribe(listeners, c).listeners
  /\ thrown' = IF unsubscribe(listeners, c).threw THEN "TypeError" ELSE thrown
  /\ UNCHANGED <<data, attached, pointer, fired, handles, lastCall, hookVars,
                 appVars>>

NextHook ==
  \/ \E x \in Xs : MouseMove(x)
  \/ \E i \in HookIds, p \in Params : HookMount(i, p)
  \/ \E i \in HookIds, p \in Params : HookRender(i, p)
  \/ FlushPassiveEffects
  \/ \E c \in Listener : Deliver(c)
  \/ \E i \in HookIds : HookUnmount(i)
  \/ \E c \in Listener : RepeatCleanup(c)

SpecHook == Init /\ [][NextHook]_vars

\* ------------------------------------------------------ the application
\* Position of each consumer in App's render order: the three
\* <Coordinates /> first, then the three <SyncCoordinates />.
Consumers == 1..(2 * NumCoordinates)
isSync(c) == c > NumCoordinates
syncAt(i) == NumCoordinates + i

\* const getState = useCallback(() => ref.current.value.x, [])
getState == getValue.x

\* useMousePosition: return ref.current.value.x, registered nowhere
useMousePosition_cached == [value |-> 0, synced |-> FALSE]
useMousePosition == [value |-> getValue.x, synced |-> FALSE]

\* useSyncExternalStore(subscribe, getSnapshot) during a render: the
\* snapshot is read and returned, and the read is registered with the root
\* so that it is checked before the commit and subscribed after it.
useSyncExternalStore(sub, snapshot) == [value |-> snapshot, synced |-> TRUE]

\* useSyncMousePosition: useSyncExternalStore(ref.current.subscribe, getState)
useSyncMousePosition_unsynced == useMousePosition
useSyncMousePosition == useSyncExternalStore("subscribe", getState)

\* the functions useSyncMousePosition hands to the store hook: both are
\* stable across renders (useCallback with no deps, a method of the store)
AppParams == [getCurrentValue |-> "getState", subscribe |-> "subscribe"]

\* Coordinates / SyncCoordinates: read the value, then block for 50 ms
renderConsumer(c) == IF isSync(c) THEN useSyncMousePosition ELSE useMousePosition

\* The lane of the update each button's handler schedules.
\* function transitionHandler() { return startTransition(toggle); }
transitionHandler == "transition"
\* const toggle = () => setCapture((x) => !x), called from onClick
toggle_inTransition == "transition"
toggle == "sync"
onClick(button) == IF button = "Yarn" THEN transitionHandler ELSE toggle

\* useSyncExternalStore before a commit: every registered read still equals
\* what its getSnapshot returns now; otherwise the attempt is abandoned.
isRenderConsistent(attempt) ==
  \A c \in Consumers : attempt[c].synced => attempt[c].value = getState

\* all consumers rendered in one go, nothing interleaved
renderAll == [c \in Consumers |->
  [value |-> renderConsumer(c).value, synced |-> renderConsumer(c).synced,
   met |-> data.x]]

\* the accessor state a committed attempt leaves: the committed snapshot
committedState(attempt) == [i \in Sync |->
  IF attempt[syncAt(i)].synced
    THEN useStateInit(AppParams, attempt[syncAt(i)].value)
    ELSE state[i]]

NoAttempt == [c \in Consumers |-> NoRead]

\* an attempt becomes the observable output
Commit(attempt, kind, trigger) ==
  /\ committedReg' = [i \in Regular |-> attempt[i].value]
  /\ committedSync' = [i \in Sync |-> attempt[syncAt(i)].value]
  /\ state' = committedState(attempt)
  /\ readsOfPass' = [c \in Consumers |-> attempt[c].met]
  /\ lastCommit' = kind
  /\ lastTrigger' = trigger
  /\ wip' = NoAttempt
  /\ cursor' = 0
  /\ upToDate' = upToDate \cup {i \in Sync : hasLive(i)}

\* if (!container) throw new Error("Missing container");
\* const root = ReactDOM.createRoot(container): what the entry module
\* reaches with the element found or not
startup_unchecked(found) == [root |-> "mounted", thrown |-> "none"]
startup(found) ==
  IF found THEN [root |-> "mounted", thrown |-> "none"]
           ELSE [root |-> "failed", thrown |-> "Missing container"]

\* The entry module runs, the store already created by the import of App:
\* the container is looked up; when it is missing the error is thrown and
\* nothing else happens; otherwise root.render(<App />): the first render,
\* blocking, then committed, and the passive effects of the synchronized
\* consumers are scheduled.
Mount(found) ==
  /\ root = "none"
  /\ container' = IF found THEN "present" ELSE "missing"
  /\ root' = startup(found).root
  /\ thrown' = startup(found).thrown
  /\ IF startup(found).root = "mounted"
       THEN /\ Commit(renderAll, "mount", "none")
            /\ params' = [i \in Sync |-> AppParams]
            /\ mountedHooks' = {i \in Sync : renderAll[syncAt(i)].synced}
            /\ needsEffect' = {i \in Sync : renderAll[syncAt(i)].synced}
       ELSE UNCHANGED <<committedReg, committedSync, state, readsOfPass,
                        lastCommit, lastTrigger, wip, cursor, upToDate,
                        params, mountedHooks, needsEffect>>
  /\ UNCHANGED <<storeVars, pointer, fired, handles, lastCall, effectGen,
                 made, closedOver, didUnsubscribe, forced, lastDelivery,
                 capture, pendingTransition, abandoned>>

\* A click on the Yarn or the Camera button.  A sync-lane update is rendered
\* and committed before the handler's task ends (pending passive effects are
\* flushed first, a transition attempt in progress is thrown away); a
\* transition update is only scheduled, one in flight at a time.
Click(button) ==
  /\ root = "mounted"
  /\ IF onClick(button) = "sync"
       THEN /\ needsEffect = {}
            /\ capture' = ~capture
            /\ Commit(renderAll, "sync", button)
            /\ forced' = {}
            /\ abandoned' = "none"
            /\ UNCHANGED pendingTransition
       ELSE /\ pendingTransition = "none"
            /\ pendingTransition' = button
            /\ UNCHANGED <<capture, forced, cursor, wip, state, committedReg,
                           committedSync, readsOfPass, lastCommit, lastTrigger,
                           abandoned, upToDate>>
  /\ UNCHANGED <<storeVars, envVars, params, mountedHooks, effectGen, made,
                 closedOver, didUnsubscribe, needsEffect, lastDelivery,
                 root, container>>

\* The transition pass renders its next consumer and yields: the consumer
\* blocks for 50 ms, longer than a time slice, so the event loop runs
\* between any two consumers and before the commit.
RenderNext ==
  /\ pendingTransition # "none"
  /\ needsEffect = {}
  /\ forced = {}
  /\ cursor < 2 * NumCoordinates
  /\ cursor' = cursor + 1
  /\ wip' = [wip EXCEPT ![cursor + 1] =
       [value |-> renderConsumer(cursor + 1).value,
        synced |-> renderConsumer(cursor + 1).synced,
        met |-> data.x]]
  /\ UNCHANGED <<storeVars, envVars, hookVars, root, container, capture,
                 pendingTransition, committedReg, committedSync, lastCommit,
                 lastTrigger, readsOfPass, abandoned>>

\* The transition pass is complete: a consistent attempt is committed; an
\* attempt whose synchronized reads are out of date is abandoned and the
\* tree rendered again without yielding, then committed.
CommitTransition ==
  /\ pendingTransition # "none"
  /\ needsEffect = {}
  /\ forced = {}
  /\ cursor = 2 * NumCoordinates
  /\ IF isRenderConsistent(wip)
       THEN /\ Commit(wip, "transition", pendingTransition)
            /\ abandoned' = "none"
       ELSE /\ Commit(renderAll, "retry", pendingTransition)
            /\ abandoned' =
                 IF \E c, e \in Consumers :
                      /\ wip[c].synced /\ wip[e].synced
                      /\ wip[c].met # wip[e].met
                   THEN "torn" ELSE "stale"
  /\ capture' = ~capture
  /\ pendingTransition' = "none"
  /\ UNCHANGED <<storeVars, envVars, params, mountedHooks, effectGen, made,
                 closedOver, didUnsubscribe, needsEffect, forced, lastDelivery,
                 root, container>>

\* <React.StrictMode>: a development build, once the effects of the first
\* commit have run, tears every effect down and runs it again: the cleanup
\* of each accessor (didUnsubscribe = true; unsubscribe()), then
\* subscribe(checkForUpdates) and checkForUpdates() anew.  A production
\* build never takes this step.  React does it in the task of the first
\* flush: before any click is handled and with the store as the flush left
\* it, every accessor's state at the value its re-check read.
StrictRemount ==
  /\ root = "mounted"
  /\ lastCommit = "mount"
  /\ pendingTransition = "none"
  /\ needsEffect = {}
  /\ mountedHooks # {}
  /\ \A i \in mountedHooks : effectGen[i] = 1 /\ state[i].value = getState
  /\ runEffects(mountedHooks)
  /\ UNCHANGED <<data, attached, pointer, fired, handles, lastCall, params,
                 mountedHooks, needsEffect, appVars>>

\* The re-render an accessor forced: its <SyncCoordinates /> renders again,
\* blocking, and is committed; a transition attempt in progress restarts.
FlushForced ==
  /\ root = "mounted"
  /\ forced # {}
  /\ committedSync' = [i \in Sync |->
       IF i \in forced THEN useSyncMousePosition.value ELSE committedSync[i]]
  /\ state' = [i \in Sync |->
       IF i \in forced THEN useStateInit(AppParams, useSyncMousePosition.value)
                       ELSE state[i]]
  /\ readsOfPass' = [c \in Consumers |->
       IF isSync(c) /\ (c - NumCoordinates) \in forced THEN data.x
                                                      ELSE readsOfPass[c]]
  /\ forced' = {}
  /\ cursor' = 0
  /\ wip' = NoAttempt
  /\ lastCommit' = "forced"
  /\ abandoned' = "none"
  /\ upToDate' = upToDate \cup forced
  /\ UNCHANGED <<storeVars, envVars, params, mountedHooks, effectGen, made,
                 closedOver, didUnsubscribe, needsEffect, lastDelivery,
                 root, container,
                 capture, pendingTransition, committedReg, lastTrigger>>

Next ==
  \/ \E x \in Xs : MouseMove(x)
  \/ \E found \in BOOLEAN : Mount(found)
  \/ \E b \in {"Yarn", "Camera"} : Click(b)
  \/ RenderNext
  \/ CommitTransition
  \/ FlushPassiveEffects
  \/ StrictRemount
  \/ FlushForced

Spec == Init /\ [][Next]_vars

\* The application under the scheduling React guarantees: the work it has
\* scheduled (the first render, a transition pass and its commit, passive
\* effects, a forced re-render) is eventually carried out.  Pointer events
\* and clicks are the user's and may stop at any time; the remount is a
\* development build's.
Fairness ==
  /\ WF_vars(\E found \in BOOLEAN : Mount(found))
  /\ WF_vars(RenderNext)
  /\ WF_vars(CommitTransition)
  /\ WF_vars(FlushPassiveEffects)
  /\ WF_vars(FlushForced)

SpecLive == Init /\ [][Next]_vars /\ Fairness

\* ====================================================== claims
\* ------------------------------------------- claims on the application
\* C1: a synchronized accessor that has subscribed and has no re-render
\* pending shows a value read no earlier than its latest subscription (or
\* the value the store held then): a change between the render-time read and
\* the subscription is met by the re-check right after subscribing, which
\* forces a re-render, and that re-render commits the value it reads.
C1_AntiTearing ==
  /\ \A i \in Sync :
       (root = "mounted" /\ hasLive(i) /\ i \notin forced) => i \in upToDate
  /\ (lastCommit = "forced" =>
        \A i \in Sync : committedSync[i] = readsOfPass[syncAt(i)])

\* C1 witness: the first render committed 0 everywhere, the store changed
\* before the effect ran, and the accessor is now committed at the new value
\* with nothing pending, while the uncoordinated consumers still show 0.
C1_Witness ==
  /\ lastCommit = "forced"
  /\ forced = {}
  /\ hasLive(1)
  /\ committedReg[1] = 0
  /\ committedSync[1] # 0
  /\ committedSync[1] = data.x

\* C3: the output committed by an interruptible update never shows two
\* SyncCoordinates consumers with different values, whatever store mutations
\* landed between their renders.
C3_SyncConsumersAgree ==
  lastCommit \in {"transition", "retry"} =>
    \A i, j \in Sync : committedSync[i] = committedSync[j]

\* C3 witness: a startTransition update whose attempt met different store
\* values in two SyncCoordinates renders has been committed.
C3_Witness ==
  /\ lastCommit = "retry"
  /\ lastTrigger = "Yarn"
  /\ abandoned = "torn"

\* C4: useMousePosition is neither re-checked nor subscribed: the output an
\* interruptible update commits shows, for each Coordinates consumer, the
\* store value its own render met, so a mutation between two of these
\* renders is committed as a tear; and Coordinates consumers only ever differ
\* in an output committed by the update of transitionHandler.
C4_UncoordinatedTears ==
  /\ (lastCommit = "transition" =>
        \A i \in Regular : committedReg[i] = readsOfPass[i])
  /\ ((\E i, j \in Regular : committedReg[i] # committedReg[j]) =>
        lastCommit = "transition" /\ lastTrigger = "Yarn")

\* C4 witness: the committed output of a transitionHandler update shows two
\* Coordinates consumers with different x.
C4_Witness ==
  /\ lastCommit = "transition"
  /\ lastTrigger = "Yarn"
  /\ committedReg[1] # committedReg[2]
  /\ readsOfPass[1] # readsOfPass[2]

\* C5: in the output committed by the update of the direct toggle no store
\* mutation is interleaved between the consumers' renders, and all six
\* consumers show the same x.
C5_DirectToggleConsistent ==
  (lastTrigger = "Camera" /\ lastCommit \in {"sync", "transition", "retry"}) =>
    /\ \A c, e \in Consumers : readsOfPass[c] = readsOfPass[e]
    /\ \A i, j \in Regular : committedReg[i] = committedReg[j]
    /\ \A i \in Regular, j \in Sync : committedReg[i] = committedSync[j]

\* C5 witness: the direct toggle was committed after the pointer had moved
\* and while a startTransition update was still pending.
C5_Witness ==
  /\ lastTrigger = "Camera"
  /\ lastCommit = "sync"
  /\ pendingTransition = "Yarn"
  /\ committedReg[1] # 0
  /\ committedSync[NumCoordinates] = committedReg[1]


\* C11: the value read from the store (store.value.x, what getCurrentValue()
\* returns) is the clientX of the latest pointer-move event handled, 0 before
\* the first; and every step that changes the store value is a run of the
\* store's event handler: no read, subscription, render attempt or commit of
\* either accessor writes it.
C11_SingleWriter ==
  /\ [](getState = pointer)
  /\ [][data' # data => \E clientX \in Xs : MouseMove(clientX)]_vars

\* C11 witness: the pointer moved while a transition attempt was rendered;
\* the attempt was abandoned, rendered again and committed, the accessors
\* are subscribed, and the store holds the clientX of the latest event.
C11_Witness ==
  /\ lastCommit = "retry"
  /\ \A i \in Sync : hasLive(i)
  /\ pointer # 0
  /\ getState = pointer
  /\ committedReg[1] = pointer

\* C12: the store's listener set changes only when effects run, after a
\* commit: rendering, abandoning an attempt and committing leave it as it
\* is; the store holds at most one registration per mounted synchronized
\* accessor, that of its latest effect run, and none whose cleanup ran; and
\* every cleanup removes a registration that was still present.
C12_SubscribeAfterCommit ==
  /\ [](\A i \in Sync :
          {l \in listeners : l[1] = i} \subseteq
            (IF i \in mountedHooks /\ hasLive(i) THEN {current(i)} ELSE {}))
  /\ [](didUnsubscribe \cap listeners = {})
  /\ [][listeners' # listeners => FlushPassiveEffects \/ StrictRemount]_vars
  /\ [][\A c \in didUnsubscribe' \ didUnsubscribe :
          c \in listeners /\ c \notin listeners']_vars

\* C12 witness: each accessor's first registration was torn down and made
\* anew, and later a complete attempt of a transition was abandoned: the
\* store holds exactly the three registrations of the latest effect runs.
C12_Witness ==
  /\ lastCommit = "retry"
  /\ didUnsubscribe = {<<i, 1>> : i \in Sync}
  /\ listeners = {current(i) : i \in Sync}
  /\ Cardinality(listeners) = NumCoordinates

\* C14: once pointer events have stopped changing the store (the latest
\* clientX stays x for good), every mounted SyncCoordinates eventually shows
\* x and keeps showing it, by the work React schedules alone.
C14_Convergence ==
  \A x \in Xs :
    <>[](pointer = x) =>
      <>[](root = "mounted" => \A i \in Sync : committedSync[i] = x)

\* C16: with the container element missing the entry module throws
\* "Missing container" and that is all: no root is created, nothing of App
\* or its consumers is ever rendered or committed, no accessor is mounted
\* and none subscribes; and the error is thrown in no other case.
C16_FailFast ==
  /\ (container = "missing" =>
        /\ root = "failed"
        /\ thrown = "Missing container"
        /\ lastCommit = "none"
        /\ wip = NoAttempt /\ cursor = 0
        /\ pendingTransition = "none"
        /\ mountedHooks = {} /\ needsEffect = {} /\ made = {}
        /\ listeners = {})
  /\ (root = "failed" \/ thrown = "Missing container" => container = "missing")

\* C16 witness: the start failed for want of the container, and pointer
\* events and time went by after it without anything being rendered.
C16_Witness ==
  /\ container = "missing"
  /\ root = "failed"
  /\ thrown = "Missing container"
  /\ pointer # 0
  /\ lastCommit = "none"

\* ------------------------------------------------ claims on the store
\* C2: every run of the store's event handler, after writing the value,
\* invokes every listener that is registered at that moment.
C2_HandlerNotifiesRegistered ==
  lastCall.op = "callback" => fired = lastCall.before

\* C6: invoking an unsubscribe handle raises nothing and removes its own
\* listener and no other; invoked when the listener is already gone (a second
\* invocation, or after destroy()) it leaves the listener set as it was.
C6_UnsubscribeIdempotent ==
  lastCall.op = "unsubscribe" =>
    /\ thrown = "none"
    /\ listeners = lastCall.before \ {lastCall.listener}
    /\ (lastCall.listener \notin lastCall.before => listeners = lastCall.before)

\* C6 witness: a handle invoked although its listener was already removed,
\* while another listener is registered.
C6_Witness ==
  /\ lastCall.op = "unsubscribe"
  /\ lastCall.listener \notin lastCall.before
  /\ lastCall.before # {}
  /\ listeners = lastCall.before

\* C8: destroy() leaves the listener set empty and the store detached; from
\* then on a pointer-move event runs no handler: it invokes no listener and
\* does not change the value.
C8_DestroyDetaches ==
  /\ (lastCall.op = "destroy" => listeners = {} /\ ~attached)
  /\ (lastCall.op = "dropped" =>
        /\ ~attached
        /\ data.x = lastCall.x
        /\ fired = lastCall.firedBefore)
  /\ (lastCall.op = "callback" => attached)

\* C8 witness: destroy() dropped a registered listener and a later pointer
\* event with a new clientX left the value alone.
C8_Witness ==
  /\ lastCall.op = "dropped"
  /\ lastCall.cleared # {}
  /\ pointer # data.x

\* C15: the listeners are a set keyed by the callback: subscribe adds its
\* listener and nothing else, and leaves the set as it was when the listener
\* is already registered; one invocation of a handle then leaves the
\* listener unregistered, whichever subscribe call returned the handle and
\* however many handles for it were issued.
C15_ListenersAreASet ==
  /\ (lastCall.op = "subscribe" =>
        /\ listeners = lastCall.before \cup {lastCall.listener}
        /\ (lastCall.dup => listeners = lastCall.before))
  /\ (lastCall.op = "unsubscribe" =>
        \A h \in handles : h[1] = lastCall.listener => h[1] \notin listeners)

\* C15 witness: a listener was subscribed a second time while registered,
\* and the next call, one invocation of one of its two handles, removed it,
\* another listener staying registered.
C15_Witness ==
  /\ lastCall.op = "unsubscribe"
  /\ lastCall.dup
  /\ lastCall.listener \in lastCall.before
  /\ \A n \in 1..MaxHandles : <<lastCall.listener, n>> \in handles
  /\ lastCall.listener \notin listeners
  /\ listeners # {}

\* ------------------------------------------ claims on useSubscription
\* C7: once an accessor's cleanup ran, its handler is no longer registered
\* with the store, so no store mutation can invoke it, and an invocation
\* that still arrives
\* returns before setState: no state change, no forced re-render, no error;
\* running the cleanup again changes nothing and raises nothing.
C7_UnsubscribedIsInert ==
  /\ thrown = "none"
  /\ didUnsubscribe \cap listeners = {}
  /\ (lastDelivery.unsubscribed =>
        /\ ~lastDelivery.called
        /\ lastDelivery.nextState = lastDelivery.prevState
        /\ ~lastDelivery.forces)

\* C7 witness: after the cleanup and a mutation of the store, the handler is
\* invoked with parameters that still match and a value that differs.
C7_Witness ==
  /\ lastDelivery.unsubscribed
  /\ ~lastDelivery.stale
  /\ lastDelivery.read # lastDelivery.prevState.value
  /\ lastDelivery.closure \in didUnsubscribe

\* C9: a notification through a subscription whose closed-over
\* getCurrentValue / subscribe differ from those in the accessor's state
\* returns the previous state: no value update, no forced re-render.
C9_StalenessGuard ==
  lastDelivery.stale =>
    /\ lastDelivery.nextState = lastDelivery.prevState
    /\ ~lastDelivery.forces

\* C9 witness: a still-subscribed but stale handler is invoked while the
\* store holds a value other than the state's.
C9_Witness ==
  /\ lastDelivery.stale
  /\ ~lastDelivery.unsubscribed
  /\ lastDelivery.called
  /\ lastDelivery.read # lastDelivery.prevState.value

\* C10: on a notification or the post-subscribe re-check, a value equal to
\* the state's snapshot leaves the state as it is and forces no re-render; a
\* re-render is forced only with a differing value, which the state takes.
C10_ValueEqualityShortCircuit ==
  lastDelivery.closure # <<0, 0>> =>
    /\ (lastDelivery.read = lastDelivery.prevState.value =>
          lastDelivery.nextState = lastDelivery.prevState /\ ~lastDelivery.forces)
    /\ (lastDelivery.forces =>
          /\ lastDelivery.read # lastDelivery.prevState.value
          /\ lastDelivery.nextState.value = lastDelivery.read)

\* C10 witness: a live, matching handler is invoked and reads the value the
\* state already holds, after the store has moved away from its first value.
C10_Witness ==
  /\ lastDelivery.called
  /\ ~lastDelivery.stale
  /\ lastDelivery.read = lastDelivery.prevState.value
  /\ lastDelivery.read # 0
  /\ lastDelivery.closure \in listeners

\* C13: a render given a getCurrentValue or subscribe other than the one in
\* the accessor's state re-reads getCurrentValue(), returns that value
\* rather than the stored snapshot, and leaves the state holding the new
\* functions and the fresh value: what is committed is the fresh value, and
\* the state of a mounted accessor always names the functions of its latest
\* render.
C13_ParamsChangeRereads ==
  /\ [](\A i \in HookIds :
          i \in mountedHooks => ~paramsChanged(state[i], params[i]))
  /\ [][\A i \in HookIds :
          (i \in mountedHooks /\ paramsChanged(state[i], params'[i])) =>
            /\ committedSync'[i] = getState
            /\ state'[i] = useStateInit(params'[i], getState)]_vars

\* C13 witness: the accessor's state held 0 (its latest handler run left it
\* there), the store moved to another value unnoticed, and a render with new
\* functions, whose effect has yet to run, committed the store's value.
C13_Witness ==
  /\ lastDelivery.closure = <<1, 1>>
  /\ lastDelivery.nextState.value = 0
  /\ paramsChanged(lastDelivery.nextState, params[1])
  /\ effectGen[1] = 1
  /\ 1 \in needsEffect
  /\ state[1].value # 0
  /\ state[1].value = getState
  /\ committedSync[1] = getState

=============================================================================
